---------------------------- MODULE Spec2Model ----------------------------
(***************************************************************************)
(* A model of src/src/fetchData.ts: the per-method shortcut callables      *)
(* built by createFetchData, the synchronous part of internalFetch         *)
(* (constructURL, optionsReducer, new Request, the beforeRequest hooks,    *)
(* the start of fetch) and the asynchronous part (the response, the        *)
(* afterResponse hooks, the status check, the body extraction), with the   *)
(* cancellation handle.                                                    *)
(*                                                                         *)
(* JavaScript values are tagged records: [t |-> "undefined"],              *)
(* [t |-> "null"], [t |-> "string", v |-> <<chars>>],                      *)
(* [t |-> "object", v |-> ...], [t |-> "array", v |-> <<...>>].  A string  *)
(* is a sequence of one-character strings, so that startsWith, endsWith,   *)
(* concatenation and JSON quoting are computed character by character.     *)
(***************************************************************************)
EXTENDS Integers, Sequences, FiniteSets, TLC

VARIABLES
  clients,   \* client id -> the defaultOptions closed over by createFetchData
  calls,     \* call id -> the state of one invocation of a shortcut callable
  arg,       \* the input of a pure function under check
  res        \* its result

vars == <<clients, calls, arg, res>>

(***************************************************************************)
(* Bounds of the model.                                                    *)
(***************************************************************************)
MaxLen == 3        \* longest url and urlPrefix of the URL composition check
MaxBodyLen == 2    \* longest string body of the option composition check
MaxPairs == 1      \* most key/value pairs of a structured body
MaxCalls == 1      \* invocations of shortcut callables in one behaviour
MaxCancels == 1    \* invocations of one call's cancellation handle

(***************************************************************************)
(* JavaScript values.                                                      *)
(***************************************************************************)
Undefined == [t |-> "undefined"]
Null == [t |-> "null"]
Str(s) == [t |-> "string", v |-> s]
Obj(o) == [t |-> "object", v |-> o]
Arr(a) == [t |-> "array", v |-> a]

\* ToBoolean: what `if (x)` and `!x` test.
Truthy(x) ==
  CASE x.t = "undefined" -> FALSE
    [] x.t = "null" -> FALSE
    [] x.t = "string" -> x.v # <<>>
    [] OTHER -> TRUE

\* const isObject = input => typeof input === "object" && input !== null;
isObject(input) == input.t \in {"object", "array"}

\* The sequences over S of length at most n.
SeqsUpTo(S, n) == UNION {[1..k -> S] : k \in 0..n}

(***************************************************************************)
(* enum HTTPMethod, enum ResponseBodyType and the constants.               *)
(***************************************************************************)
GET == "get"
PUT == "put"
POST == "post"
PATCH == "patch"
DELETE == "delete"
HTTPMethod == {GET, PUT, POST, PATCH, DELETE}

ResponseBodyType == {"json", "blob", "text", "formData", "arrayBuffer"}
DEFAULT_EXPECTED_DATA_TYPE == "json"

CONTENT_TYPE_HEADER_TITLE == "Content-Type"
CONTENT_TYPE_HEADER ==
  [n \in {CONTENT_TYPE_HEADER_TITLE} |-> "application/json;charset=utf-8"]

(***************************************************************************)
(* JSON.stringify, on the values a body takes here: a string is quoted,    *)
(* with its quotes and backslashes escaped; an object whose values are     *)
(* strings becomes {"k":"v",...} in the order of its keys.  An object is   *)
(* a sequence of <<key, value>> pairs, both strings.                       *)
(***************************************************************************)
RECURSIVE Escape(_)
Escape(s) ==
  IF s = <<>> THEN <<>>
  ELSE (IF Head(s) \in {"\"", "\\"} THEN <<"\\", Head(s)>> ELSE <<Head(s)>>)
         \o Escape(Tail(s))

Quote(s) == <<"\"">> \o Escape(s) \o <<"\"">>

RECURSIVE Members(_)
Members(pairs) ==
  IF pairs = <<>> THEN <<>>
  ELSE Quote(Head(pairs)[1]) \o <<":">> \o Quote(Head(pairs)[2])
         \o (IF Tail(pairs) = <<>> THEN <<>> ELSE <<",">>)
         \o Members(Tail(pairs))

JSONStringify(x) ==
  CASE x.t = "string" -> Str(Quote(x.v))
    [] x.t = "object" -> Str(<<"{">> \o Members(x.v) \o <<"}">>)
    [] x.t = "null" -> Str(<<"n", "u", "l", "l">>)
    [] OTHER -> Undefined

\* The plain objects of the model: at most MaxPairs keys, each once.
ObjectKeys == {<<"k">>, <<"j">>}
ObjectValues ==
  {p \in SeqsUpTo({<<k, <<"v">> >> : k \in ObjectKeys}, MaxPairs) :
     \A i, j \in DOMAIN p : p[i][1] = p[j][1] => i = j}

(***************************************************************************)
(* optionsReducer(options, httpMethod).  options is a record with at       *)
(* least the fields body and headers; headers is Undefined or Obj(h), h a  *)
(* function from header names (as the caller wrote them) to values.        *)
(***************************************************************************)
\* options.headers?.[CONTENT_TYPE_HEADER_TITLE], as tested by `!`
HasContentTypeEntry(options) ==
  /\ options.headers.t = "object"
  /\ CONTENT_TYPE_HEADER_TITLE \in DOMAIN options.headers.v
  /\ options.headers.v[CONTENT_TYPE_HEADER_TITLE] # ""

\* { ...(options.headers || {}), ...CONTENT_TYPE_HEADER }
SpreadHeaders(headers, extra) ==
  LET h == IF Truthy(headers) THEN headers.v ELSE <<>>
  IN [n \in (DOMAIN h) \cup (DOMAIN extra) |->
        IF n \in DOMAIN extra THEN extra[n] ELSE h[n]]

optionsReducer(options, httpMethod) ==
  IF httpMethod \in {POST, PUT, PATCH}
  THEN LET withHeaders ==
             IF isObject(options.body) /\ ~HasContentTypeEntry(options)
             THEN [options EXCEPT
                     !.headers = Obj(SpreadHeaders(options.headers, CONTENT_TYPE_HEADER))]
             ELSE options
       IN IF Truthy(withHeaders.body)
          THEN [withHeaders EXCEPT !.body = JSONStringify(withHeaders.body)]
          ELSE withHeaders
  ELSE options

(***************************************************************************)
(* constructURL(url, urlPrefix): url a string, urlPrefix Undefined or a    *)
(* string.                                                                 *)
(***************************************************************************)
startsWith(s, c) == s # <<>> /\ Head(s) = c
endsWith(s, c) == s # <<>> /\ s[Len(s)] = c

\* constructURL without `url.replace(/^\//, "")`: the leading slash stays.
constructURLKeepingSlash(url, urlPrefix) ==
  IF ~Truthy(urlPrefix) THEN url
  ELSE (IF ~endsWith(urlPrefix.v, "/") THEN urlPrefix.v \o <<"/">> ELSE urlPrefix.v)
         \o url

\* constructURL without `urlPrefix + "/"`: the prefix is taken as it is.
constructURLBarePrefix(url, urlPrefix) ==
  IF ~Truthy(urlPrefix) THEN url
  ELSE urlPrefix.v \o (IF startsWith(url, "/") THEN Tail(url) ELSE url)

constructURL(url, urlPrefix) ==
  IF ~Truthy(urlPrefix) THEN url
  ELSE LET resultURL == IF startsWith(url, "/") THEN Tail(url) ELSE url
           resultURLPrefix ==
             IF ~endsWith(urlPrefix.v, "/") THEN urlPrefix.v \o <<"/">>
             ELSE urlPrefix.v
       IN resultURLPrefix \o resultURL

(***************************************************************************)
(* The pure functions under check: the input is drawn in the initial       *)
(* state, one action applies the function.                                 *)
(***************************************************************************)
NoArg == [f |-> "none"]
NoRes == [done |-> FALSE]
NoCall == [pc |-> "idle"]

UrlChars == {"/", "a"}
UrlStrings == SeqsUpTo(UrlChars, MaxLen)
UrlPrefixes == {Undefined} \cup {Str(s) : s \in UrlStrings}

InitURL ==
  /\ arg \in {[f |-> "constructURL", url |-> u, urlPrefix |-> p] :
                u \in UrlStrings, p \in UrlPrefixes}
  /\ res = NoRes
  /\ clients = <<>>
  /\ calls = <<>>

ApplyConstructURL ==
  /\ arg.f = "constructURL"
  /\ ~res.done
  /\ res' = [done |-> TRUE, v |-> constructURL(arg.url, arg.urlPrefix)]
  /\ UNCHANGED <<clients, calls, arg>>

NextURL == ApplyConstructURL

SpecURL == InitURL /\ [][NextURL]_vars

BodyChars == {"a", "\""}
ObjectBodies == {Obj(p) : p \in ObjectValues}
Bodies ==
  {Undefined, Null} \cup {Str(s) : s \in SeqsUpTo(BodyChars, MaxBodyLen)}
    \cup ObjectBodies

HeaderNames == {"Content-Type", "content-type", "Authentication"}
HeaderValues == {"", "text/plain"}
HeaderObjects == UNION {[D -> HeaderValues] : D \in SUBSET HeaderNames}
HeaderOptions == {Undefined} \cup {Obj(h) : h \in HeaderObjects}

InitOptions ==
  /\ arg \in {[f |-> "optionsReducer", httpMethod |-> m,
               options |-> [body |-> b, headers |-> h]] :
                m \in HTTPMethod, b \in Bodies, h \in HeaderOptions}
  /\ res = NoRes
  /\ clients = <<>>
  /\ calls = <<>>

ApplyOptionsReducer ==
  /\ arg.f = "optionsReducer"
  /\ ~res.done
  /\ res' = [done |-> TRUE, v |-> optionsReducer(arg.options, arg.httpMethod)]
  /\ UNCHANGED <<clients, calls, arg>>

NextOptions == ApplyOptionsReducer

SpecOptions == InitOptions /\ [][NextOptions]_vars


(***************************************************************************)
(* The platform's Request: new Request(input, init).  Header names are     *)
(* case-insensitive (kept in lower case, the values given under names that *)
(* differ only in case are combined); the method is normalised to upper    *)
(* case; a string body is the payload as it is and gets the text/plain     *)
(* content type when no content type is given; any other non-null body is  *)
(* converted with String(); a body with GET or HEAD is a TypeError; keys   *)
(* of init that RequestInit does not know (searchParams, data) are         *)
(* ignored.                                                                *)
(***************************************************************************)
Enum(e) == [t |-> "string", e |-> e]

LowerCase(n) ==
  CASE n = "Content-Type" -> "content-type"
    [] n = "Authentication" -> "authentication"
    [] n = "Authorization" -> "authorization"
    [] OTHER -> n

UpperCaseMethod(m) ==
  CASE m = "get" -> "GET"
    [] m = "put" -> "PUT"
    [] m = "post" -> "POST"
    [] m = "patch" -> "PATCH"
    [] m = "delete" -> "DELETE"
    [] OTHER -> m

ObjectObject ==
  <<"[", "o", "b", "j", "e", "c", "t", " ", "O", "b", "j", "e", "c", "t", "]">>

RequestHeaders(headers) ==
  IF headers.t # "object" THEN <<>>
  ELSE LET h == headers.v
       IN [n \in {LowerCase(k) : k \in DOMAIN h} |->
             {h[k] : k \in {x \in DOMAIN h : LowerCase(x) = n}}]

RequestBody(body) ==
  CASE body.t \in {"undefined", "null"} -> Null
    [] body.t = "string" -> body
    [] OTHER -> Str(ObjectObject)

NewRequest(input, init) ==
  LET method == IF init.method.t = "undefined" THEN "GET"
                ELSE UpperCaseMethod(init.method.e)
      body == RequestBody(init.body)
      given == RequestHeaders(init.headers)
      headers ==
        IF body.t = "string" /\ "content-type" \notin DOMAIN given
        THEN [n \in DOMAIN given \cup {"content-type"} |->
                IF n = "content-type" THEN {"text/plain;charset=UTF-8"}
                ELSE given[n]]
        ELSE given
  IN IF body.t # "null" /\ method \in {"GET", "HEAD"}
     THEN [ok |-> FALSE]
     ELSE [ok |-> TRUE,
           request |-> [url |-> input, method |-> method, headers |-> headers,
                        body |-> body, signal |-> init.signal]]

\* request.headers.set(name, value), what a beforeRequest hook does
HeadersSet(request, name, value) ==
  [request EXCEPT !.headers =
     [n \in DOMAIN @ \cup {LowerCase(name)} |->
        IF n = LowerCase(name) THEN {value} ELSE @[n]]]

(***************************************************************************)
(* The platform's Response: the status text of a status, response.ok, and  *)
(* the body accessors json(), text(), blob(), formData(), arrayBuffer().   *)
(* json() and formData() parse the body text and reject when it is not of  *)
(* their format: they are the inverses of JSON.stringify and of the        *)
(* urlencoded serialisation on the values of this model.                   *)
(***************************************************************************)
StatusText(status) ==
  CASE status = 200 -> "OK"
    [] status = 300 -> "Multiple Choices"
    [] status = 400 -> "Bad Request"
    [] OTHER -> ""

ResponseOk(status) == 200 <= status /\ status <= 299

RECURSIVE FormEncode(_)
FormEncode(pairs) ==
  IF pairs = <<>> THEN <<>>
  ELSE Head(pairs)[1] \o <<"=">> \o Head(pairs)[2]
         \o (IF Tail(pairs) = <<>> THEN <<>> ELSE <<"&">>)
         \o FormEncode(Tail(pairs))

JsonValues ==
  {Null} \cup {Str(s) : s \in SeqsUpTo({"a", "\""}, MaxBodyLen)}
    \cup {Obj(p) : p \in ObjectValues}

FormValues == ObjectValues \ {<<>>}

ParseJSON(text) ==
  IF \E x \in JsonValues : JSONStringify(x).v = text
  THEN [ok |-> TRUE, v |-> CHOOSE x \in JsonValues : JSONStringify(x).v = text]
  ELSE [ok |-> FALSE]

ParseForm(text) ==
  IF \E p \in FormValues : FormEncode(p) = text
  THEN [ok |-> TRUE,
        v |-> [t |-> "formData", v |-> CHOOSE p \in FormValues : FormEncode(p) = text]]
  ELSE [ok |-> FALSE]

\* response[expectedDataType]()
ExtractBody(expectedDataType, text) ==
  CASE expectedDataType = "json" -> ParseJSON(text)
    [] expectedDataType = "text" -> [ok |-> TRUE, v |-> Str(text)]
    [] expectedDataType = "blob" -> [ok |-> TRUE, v |-> [t |-> "blob", v |-> text]]
    [] expectedDataType = "arrayBuffer" ->
         [ok |-> TRUE, v |-> [t |-> "arrayBuffer", v |-> text]]
    [] expectedDataType = "formData" -> ParseForm(text)

(***************************************************************************)
(* The hooks.  A hook is a function the caller wrote; the model knows it   *)
(* by name and by what it does: it sets a header of the request, it        *)
(* observes the response, it throws, or it calls the cancellation handle   *)
(* of its call (a closure over the cancelRequest the callable returned).   *)
(***************************************************************************)
HookEffect(hook) ==
  CASE hook \in {"bSetA", "bSetB"} -> "setHeader"
    [] hook \in {"bThrow", "aThrow"} -> "throw"
    [] hook = "aCancel" -> "cancel"
    [] OTHER -> "observe"

HookValue(hook) == IF hook = "bSetA" THEN "Bearer A" ELSE "Bearer B"

\* runBeforeRequestHooks with each hook in a try/catch that drops the error.
RECURSIVE runBeforeRequestHooksSwallowing(_, _)
runBeforeRequestHooksSwallowing(hooks, request) ==
  IF hooks = <<>> THEN [request |-> request, events |-> <<>>, threw |-> FALSE]
  ELSE LET hook == Head(hooks)
           after == IF HookEffect(hook) = "setHeader"
                    THEN HeadersSet(request, "Authorization", HookValue(hook))
                    ELSE request
           rest == runBeforeRequestHooksSwallowing(Tail(hooks), after)
       IN [rest EXCEPT !.events = << <<"beforeRequest", hook>> >> \o @]

\* for (const hook of hooks) { hook(request); }
\* The result: the request as the hooks left it, the events in order, and
\* whether a hook threw (the loop ends there).
RECURSIVE runBeforeRequestHooks(_, _)
runBeforeRequestHooks(hooks, request) ==
  IF hooks = <<>> THEN [request |-> request, events |-> <<>>, threw |-> FALSE]
  ELSE LET hook == Head(hooks)
           event == <<"beforeRequest", hook>>
       IN IF HookEffect(hook) = "throw"
          THEN [request |-> request, events |-> <<event>>, threw |-> TRUE]
          ELSE LET after == IF HookEffect(hook) = "setHeader"
                            THEN HeadersSet(request, "Authorization", HookValue(hook))
                            ELSE request
                   rest == runBeforeRequestHooks(Tail(hooks), after)
               IN [rest EXCEPT !.events = <<event>> \o @]

\* runAfterResponseHooks iterating from the last hook to the first.
RECURSIVE runAfterResponseHooksReversed(_, _)
runAfterResponseHooksReversed(hooks, response) ==
  IF hooks = <<>> THEN [events |-> <<>>, threw |-> FALSE, cancels |-> 0]
  ELSE LET hook == hooks[Len(hooks)]
           event == <<"afterResponse", hook>>
       IN IF HookEffect(hook) = "throw"
          THEN [events |-> <<event>>, threw |-> TRUE, cancels |-> 0]
          ELSE LET rest == runAfterResponseHooksReversed(
                             SubSeq(hooks, 1, Len(hooks) - 1), response)
               IN IF HookEffect(hook) = "cancel"
                  THEN [rest EXCEPT !.events = <<event, <<"cancel">> >> \o @,
                                    !.cancels = @ + 1]
                  ELSE [rest EXCEPT !.events = <<event>> \o @]

\* for (const hook of hooks) { hook(response); }
\* The result: the events in order, whether a hook threw, and whether a hook
\* called the cancellation handle.
RECURSIVE runAfterResponseHooks(_, _)
runAfterResponseHooks(hooks, response) ==
  IF hooks = <<>> THEN [events |-> <<>>, threw |-> FALSE, cancels |-> 0]
  ELSE LET hook == Head(hooks)
           event == <<"afterResponse", hook>>
       IN IF HookEffect(hook) = "throw"
          THEN [events |-> <<event>>, threw |-> TRUE, cancels |-> 0]
          ELSE LET rest == runAfterResponseHooks(Tail(hooks), response)
               IN IF HookEffect(hook) = "cancel"
                  THEN [rest EXCEPT !.events = <<event, <<"cancel">> >> \o @,
                                    !.cancels = @ + 1]
                  ELSE [rest EXCEPT !.events = <<event>> \o @]

(***************************************************************************)
(* deepMerge(defaultOptions, options), the deepmerge package: a key of the *)
(* source wins over the same key of the target, except that two arrays     *)
(* are concatenated and two plain objects are merged key by key.  A key    *)
(* that is absent and a key that is undefined are not told apart.          *)
(***************************************************************************)
EmptyOptions ==
  [method |-> Undefined, urlPrefix |-> Undefined, type |-> Undefined,
   hooks |-> Undefined, body |-> Undefined, headers |-> Undefined,
   searchParams |-> Undefined]

Hooks(before, after) == Obj([beforeRequest |-> before, afterResponse |-> after])

\* two objects kept as functions from keys to strings (headers)
MergeFunctions(f, g) ==
  [k \in DOMAIN f \cup DOMAIN g |-> IF k \in DOMAIN g THEN g[k] ELSE f[k]]

\* two objects kept as sequences of <<key, value>> pairs (body, searchParams):
\* the target's keys in their order, then the keys only the source has
Keys(pairs) == {pairs[i][1] : i \in DOMAIN pairs}
ValueOf(pairs, k) == pairs[CHOOSE i \in DOMAIN pairs : pairs[i][1] = k][2]
MergePairs(p, q) ==
  [i \in DOMAIN p |->
     IF p[i][1] \in Keys(q) THEN <<p[i][1], ValueOf(q, p[i][1])>> ELSE p[i]]
    \o SelectSeq(q, LAMBDA e : e[1] \notin Keys(p))

\* deepMerge with arrayMerge: (target, source) => source, the array of the
\* source in the place of the array of the target.
MergeLeafReplacing(a, b) == IF b.t = "undefined" THEN a ELSE b

MergeLeaf(a, b) ==
  IF b.t = "undefined" THEN a
  ELSE IF a.t = "array" /\ b.t = "array" THEN Arr(a.v \o b.v)
  ELSE b

MergeValue(k, a, b) ==
  IF a.t = "object" /\ b.t = "object"
  THEN CASE k = "headers" -> Obj(MergeFunctions(a.v, b.v))
         [] k = "hooks" -> Obj([h \in DOMAIN a.v |-> MergeLeaf(a.v[h], b.v[h])])
         [] OTHER -> Obj(MergePairs(a.v, b.v))
  ELSE MergeLeaf(a, b)

deepMerge(x, y) == [k \in DOMAIN x |-> MergeValue(k, x[k], y[k])]

(***************************************************************************)
(* internalFetch(url, originalOptions, httpMethod), up to its return: the  *)
(* state of the call when the callable returns or throws.                  *)
(*   pc = "threw":    new Request or a beforeRequest hook threw; the       *)
(*                    caller got neither a promise nor a handle.           *)
(*   pc = "fetching": fetch(request) is pending (the async function ran    *)
(*                    up to its first await); the caller holds the promise *)
(*                    and cancelRequest.                                   *)
(* events is the order in which things happened to the call.               *)
(***************************************************************************)
internalFetch(url, originalOptions, httpMethod) ==
  LET type == originalOptions.type
      urlPrefix == originalOptions.urlPrefix
      hooks == IF originalOptions.hooks.t = "undefined"
               THEN [beforeRequest |-> Undefined, afterResponse |-> Undefined]
               ELSE originalOptions.hooks.v
      options == [method |-> originalOptions.method,
                  body |-> originalOptions.body,
                  headers |-> originalOptions.headers,
                  searchParams |-> originalOptions.searchParams]
      resultURL == constructURL(url, urlPrefix)
      init == optionsReducer(
                [method |-> options.method, body |-> options.body,
                 headers |-> options.headers,
                 searchParams |-> options.searchParams,
                 signal |-> "abortController.signal"],
                httpMethod)
      made == NewRequest(resultURL, init)
      ran == IF made.ok /\ Truthy(hooks.beforeRequest)
             THEN runBeforeRequestHooks(hooks.beforeRequest.v, made.request)
             ELSE [request |-> IF made.ok THEN made.request ELSE Undefined,
                   events |-> <<>>, threw |-> FALSE]
      state == [hooks |-> hooks, type |-> type, init |-> init,
                request |-> ran.request, aborted |-> FALSE, cancels |-> 0,
                response |-> Undefined, result |-> Undefined]
  IN IF ~made.ok
     THEN [pc |-> "threw", error |-> [name |-> "TypeError"],
           events |-> <<>>] @@ state
     ELSE IF ran.threw
     THEN [pc |-> "threw",
           error |-> [name |-> "HookError", hook |-> ran.events[Len(ran.events)][2]],
           events |-> ran.events] @@ state
     ELSE [pc |-> "fetching", error |-> Undefined,
           events |-> ran.events \o << <<"fetch">> >>] @@ state

(***************************************************************************)
(* createFetchData(defaultOptions)[httpMethod](url, options): call i is    *)
(* made on client c.                                                       *)
(***************************************************************************)
CallIds == 1..MaxCalls

Call(i, c, httpMethod, url, options) ==
  /\ calls[i].pc = "idle"
  /\ \A j \in CallIds : j < i => calls[j].pc # "idle"
  /\ LET mergedOptions == deepMerge(clients[c], options)
         originalOptions ==
           [mergedOptions EXCEPT
              !.method = IF @.t = "undefined" THEN Enum(httpMethod) ELSE @]
     IN calls' = [calls EXCEPT ![i] =
          [client |-> c, httpMethod |-> httpMethod, url |-> url,
           options |-> options, mergedOptions |-> mergedOptions]
            @@ internalFetch(url, originalOptions, httpMethod)]
  /\ UNCHANGED <<clients, arg, res>>

(***************************************************************************)
(* The rest of internalFetch: the async function after its awaits.         *)
(***************************************************************************)
Settle(call, pc, result, events) ==
  [call EXCEPT !.pc = pc, !.result = result, !.events = @ \o events]

\* cancelRequest() that does not call abortController.abort().
CancelWithoutAbort(i) ==
  /\ calls[i].pc \in {"fetching", "extracting", "resolved", "rejected"}
  /\ calls[i].cancels < MaxCancels
  /\ calls' = [calls EXCEPT ![i].cancels = @ + 1,
                            ![i].events = @ \o << <<"cancel">> >>]
  /\ UNCHANGED <<clients, arg, res>>

\* cancelRequest() that aborts an AbortController all calls share.
CancelSharedController(i) ==
  /\ calls[i].pc \in {"fetching", "extracting", "resolved", "rejected"}
  /\ calls[i].cancels < MaxCancels
  /\ calls' = [j \in DOMAIN calls |->
       IF j = i
       THEN [calls[j] EXCEPT !.aborted = TRUE, !.cancels = @ + 1,
                             !.events = @ \o << <<"cancel">> >>]
       ELSE IF calls[j].pc = "idle" THEN calls[j]
       ELSE [calls[j] EXCEPT !.aborted = TRUE]]
  /\ UNCHANGED <<clients, arg, res>>

\* cancelRequest(), called by the caller: abortController.abort().  The
\* handle exists once the callable has returned.
Cancel(i) ==
  /\ calls[i].pc \in {"fetching", "extracting", "resolved", "rejected"}
  /\ calls[i].cancels < MaxCancels
  /\ calls' = [calls EXCEPT ![i].aborted = TRUE,
                            ![i].cancels = @ + 1,
                            ![i].events = @ \o << <<"cancel">> >>]
  /\ UNCHANGED <<clients, arg, res>>

\* fetch(request) rejects with the AbortError once the signal is aborted.
FetchAbort(i) ==
  /\ calls[i].pc = "fetching"
  /\ calls[i].aborted
  /\ calls' = [calls EXCEPT ![i] =
       Settle(@, "rejected", [name |-> "AbortError"],
              << <<"reject", "AbortError">> >>)]
  /\ UNCHANGED <<clients, arg, res>>

\* fetch(request) rejects with a network error, which the async function
\* does not catch.
FetchFail(i) ==
  /\ calls[i].pc = "fetching"
  /\ ~calls[i].aborted
  /\ calls' = [calls EXCEPT ![i] =
       Settle(@, "rejected", [name |-> "TransportError"],
              << <<"reject", "TransportError">> >>)]
  /\ UNCHANGED <<clients, arg, res>>

\* `await fetch(request)` resumes with a response: the afterResponse hooks,
\* the status check, and the call of the body accessor.
AfterResponse(call, response) ==
  LET ran == IF Truthy(call.hooks.afterResponse)
             THEN runAfterResponseHooks(call.hooks.afterResponse.v, response)
             ELSE [events |-> <<>>, threw |-> FALSE, cancels |-> 0]
      seen == [call EXCEPT !.response = response,
                           !.aborted = @ \/ ran.cancels > 0,
                           !.cancels = @ + ran.cancels,
                           !.events = @ \o << <<"response">> >> \o ran.events]
  IN IF ran.threw
     THEN Settle(seen, "rejected",
                 [name |-> "HookError", hook |-> ran.events[Len(ran.events)][2]],
                 << <<"reject", "HookError">> >>)
     ELSE IF ~response.ok
     THEN Settle(seen, "rejected",
                 [name |-> "HTTPError", code |-> response.status,
                  response |-> response, request |-> call.request],
                 << <<"statusCheck">>, <<"reject", "HTTPError">> >>)
     ELSE [seen EXCEPT !.pc = "extracting",
                       !.events = @ \o << <<"statusCheck">>, <<"extract">> >>]

ResponseArrives(i, status, text) ==
  /\ calls[i].pc = "fetching"
  /\ ~calls[i].aborted
  /\ calls' = [calls EXCEPT ![i] =
       AfterResponse(@, [status |-> status, statusText |-> StatusText(status),
                         ok |-> ResponseOk(status), body |-> text])]
  /\ UNCHANGED <<clients, arg, res>>

\* `type || DEFAULT_EXPECTED_DATA_TYPE` with the configured type dropped.
ExpectedDataTypeDefaultOnly(call) == DEFAULT_EXPECTED_DATA_TYPE

\* const expectedDataType = type || DEFAULT_EXPECTED_DATA_TYPE;
ExpectedDataType(call) ==
  IF call.type.t = "undefined" THEN DEFAULT_EXPECTED_DATA_TYPE ELSE call.type.e

\* `await response[expectedDataType]()` resumes: the envelope, or the
\* accessor's rejection when the body is not of the expected type.
BodyExtracted(i) ==
  /\ calls[i].pc = "extracting"
  /\ LET call == calls[i]
         responseData == ExtractBody(ExpectedDataType(call), call.response.body)
     IN calls' = [calls EXCEPT ![i] =
          IF responseData.ok
          THEN Settle(call, "resolved",
                      [status |-> call.response.status,
                       statusText |-> call.response.statusText,
                       data |-> responseData.v,
                       cancel |-> i],
                      << <<"resolve">> >>)
          ELSE Settle(call, "rejected", [name |-> "SyntaxError"],
                      << <<"reject", "SyntaxError">> >>)]
  /\ UNCHANGED <<clients, arg, res>>

\* The body accessor rejects with the AbortError when the signal is aborted
\* while the body is still being read; a body that has arrived in full is
\* extracted all the same (BodyExtracted).
BodyAbort(i) ==
  /\ calls[i].pc = "extracting"
  /\ calls[i].aborted
  /\ calls' = [calls EXCEPT ![i] =
       Settle(@, "rejected", [name |-> "AbortError"],
              << <<"reject", "AbortError">> >>)]
  /\ UNCHANGED <<clients, arg, res>>

(***************************************************************************)
(* The calls of a client: one client per set of default options, calls     *)
(* with hooks and response types, responses of every status and body.      *)
(***************************************************************************)
ClientDefaults ==
  <<EmptyOptions,
    [EmptyOptions EXCEPT !.urlPrefix = Str(<<"a">>),
                         !.hooks = Hooks(Arr(<<"bSetB">>), Arr(<<"aSeen2">>))]>>
ClientIds == DOMAIN ClientDefaults

Statuses == {200, 299, 300, 400}
JsonText == JSONStringify(Obj(<< <<(<<"k">>), (<<"v">>)>> >>)).v
ResponseTexts == {JsonText, <<"a">>}

CallOptions ==
  {EmptyOptions,
   [EmptyOptions EXCEPT !.type = Enum("text")],
   [EmptyOptions EXCEPT !.hooks = Hooks(Arr(<<"bSetA", "bSetB">>),
                                        Arr(<<"aSeen1", "aSeen2">>))],
   [EmptyOptions EXCEPT !.hooks = Hooks(Arr(<<"bSetB", "bThrow", "bSetA">>), Undefined)],
   [EmptyOptions EXCEPT !.hooks = Hooks(Undefined, Arr(<<"aSeen2", "aThrow", "aSeen1">>))],
   [EmptyOptions EXCEPT !.hooks = Hooks(Undefined, Arr(<<"aSeen1", "aCancel", "aSeen2">>))]}

Invocations ==
  {[httpMethod |-> GET, url |-> <<"/", "a">>, options |-> o] : o \in CallOptions}
    \cup {[httpMethod |-> POST, url |-> <<"a">>,
           options |-> [EmptyOptions EXCEPT !.body = Obj(<< <<(<<"k">>), (<<"v">>)>> >>)]]}

Init ==
  /\ clients = ClientDefaults
  /\ calls = [i \in CallIds |-> NoCall]
  /\ arg = NoArg
  /\ res = NoRes

Next ==
  \/ \E i \in CallIds, c \in ClientIds, v \in Invocations :
       Call(i, c, v.httpMethod, v.url, v.options)
  \/ \E i \in CallIds : Cancel(i)
  \/ \E i \in CallIds : FetchAbort(i)
  \/ \E i \in CallIds : FetchFail(i)
  \/ \E i \in CallIds, status \in Statuses, text \in ResponseTexts :
       ResponseArrives(i, status, text)
  \/ \E i \in CallIds : BodyExtracted(i)
  \/ \E i \in CallIds : BodyAbort(i)

Spec == Init /\ [][Next]_vars

(***************************************************************************)
(* The synchronous part alone, on wider inputs: every shortcut callable,   *)
(* urls with and without a query string, options with a method key, a      *)
(* body, searchParams.                                                     *)
(***************************************************************************)
WideUrls == {<<"a">>, <<"a", "?", "v">>}
WideMethodKeys == {Undefined, Enum(GET), Enum(POST)}
WideBodies == {Undefined, Str(<<"a">>), Obj(<< <<(<<"k">>), (<<"v">>)>> >>)}
WideSearchParams == {Undefined, Str(<<"q">>), Obj(<< <<(<<"k">>), (<<"v">>)>> >>)}
WideOptions ==
  {[EmptyOptions EXCEPT !.method = m, !.body = b, !.searchParams = q] :
     m \in WideMethodKeys, b \in WideBodies, q \in WideSearchParams}

NextCall ==
  \E i \in CallIds, c \in ClientIds, m \in HTTPMethod, u \in WideUrls, o \in WideOptions :
    Call(i, c, m, u, o)

SpecCall == Init /\ [][NextCall]_vars

(***************************************************************************)
(* The callable on objects held by reference.  The caller keeps the        *)
(* defaultOptions it gave to createFetchData and the options it gave to a  *)
(* call; the callable and internalFetch build objects of their own.  A     *)
(* store is the variables in scope (env: name -> reference) and the        *)
(* objects (heap: reference -> value).  Only the top-level objects are     *)
(* kept by reference: the code assigns to properties of the options        *)
(* object it reduces and nowhere to a nested object.                       *)
(***************************************************************************)
\* a new object bound to a name: an object literal, a spread, a rest
\* pattern, the result of deepMerge
Alloc(st, name, value) ==
  [env |-> (name :> name) @@ st.env, heap |-> (name :> value) @@ st.heap]

\* a name bound to the object another name is bound to
Bind(st, name, other) ==
  [st EXCEPT !.env = (name :> st.env[other]) @@ @]

\* assignments to properties of the object a name is bound to
Assign(st, name, value) == [st EXCEPT !.heap[st.env[name]] = value]

Deref(st, name) == st.heap[st.env[name]]

\* The part of an options object that internalFetch hands on to
\* optionsReducer and new Request.
RestOf(o) ==
  [method |-> o.method, body |-> o.body, headers |-> o.headers,
   searchParams |-> o.searchParams]

\* The callable that merges with Object.assign(defaultOptions, options) and
\* reduces the merged object itself.
CallableAssigningDefaults(defaultOptions, options, httpMethod) ==
  LET s0 == [env |-> [defaultOptions |-> "d", options |-> "o"],
             heap |-> [d |-> defaultOptions, o |-> options]]
      s1 == Bind(Assign(s0, "defaultOptions",
                        deepMerge(Deref(s0, "defaultOptions"), Deref(s0, "options"))),
                 "mergedOptions", "defaultOptions")
      s2 == Alloc(s1, "originalOptions",
                  [Deref(s1, "mergedOptions") EXCEPT
                     !.method = IF @.t = "undefined" THEN Enum(httpMethod) ELSE @])
      reduced == optionsReducer(
                   RestOf(Deref(s2, "originalOptions"))
                     @@ [signal |-> "abortController.signal"], httpMethod)
  IN Assign(s2, "mergedOptions",
            [Deref(s2, "mergedOptions") EXCEPT !.headers = reduced.headers,
                                               !.body = reduced.body])

\* createFetchData(defaultOptions)[httpMethod](url, options) and the objects
\* of internalFetch, up to the call of new Request:
\*   mergedOptions = deepMerge(defaultOptions, options)      a new object
\*   { method: HTTPMethod[httpMethod], ...mergedOptions }    a new object
\*   const { type, urlPrefix, hooks = {}, ...options }       a new object
\*   { ...options, signal: abortController.signal }          a new object
\*   optionsReducer assigns headers and body of its parameter
Callable(defaultOptions, options, httpMethod) ==
  LET s0 == [env |-> [defaultOptions |-> "d", options |-> "o"],
             heap |-> [d |-> defaultOptions, o |-> options]]
      s1 == Alloc(s0, "mergedOptions",
                  deepMerge(Deref(s0, "defaultOptions"), Deref(s0, "options")))
      s2 == Alloc(s1, "originalOptions",
                  [Deref(s1, "mergedOptions") EXCEPT
                     !.method = IF @.t = "undefined" THEN Enum(httpMethod) ELSE @])
      s3 == Alloc(s2, "rest", RestOf(Deref(s2, "originalOptions")))
      s4 == Alloc(s3, "reducerOptions",
                  Deref(s3, "rest") @@ [signal |-> "abortController.signal"])
  IN Assign(s4, "reducerOptions",
            optionsReducer(Deref(s4, "reducerOptions"), httpMethod))

(***************************************************************************)
(* Two calls in flight at a time, on one client or on two, with the        *)
(* objects of the caller in the state: clients[c] is the defaultOptions    *)
(* object of client c as it is now, arg.options[i] the options object of   *)
(* call i as it is now.                                                    *)
(***************************************************************************)
PairIds == {1, 2}

MaxLateCancels == 2  \* invocations of a handle after its call has settled

PairDefaults ==
  <<[EmptyOptions EXCEPT !.urlPrefix = Str(<<"a">>),
                         !.headers = Obj("Authentication" :> "text/plain")],
    [EmptyOptions EXCEPT !.urlPrefix = Str(<<"b">>),
                         !.hooks = Hooks(Undefined, Arr(<<"aSeen1">>))]>>

PairInvocations ==
  {[httpMethod |-> GET, url |-> <<"/", "a">>, options |-> EmptyOptions],
   [httpMethod |-> POST, url |-> <<"a">>,
    options |-> [EmptyOptions EXCEPT !.body = Obj(<< <<(<<"k">>), (<<"v">>)>> >>)]],
   [httpMethod |-> GET, url |-> <<"a">>,
    options |-> [EmptyOptions EXCEPT !.urlPrefix = Str(<<"/">>),
                                     !.hooks = Hooks(Undefined, Arr(<<"aCancel">>))]]}

PairStatuses == {200, 400}

InitPair ==
  /\ clients = PairDefaults
  /\ calls = [i \in PairIds |-> NoCall]
  /\ arg = [f |-> "callable", options |-> [i \in PairIds |-> Undefined]]
  /\ res = NoRes

\* Call i is made on client c, the objects of the caller in the state.
CallOnObjects(i, c, httpMethod, url, options) ==
  /\ calls[i].pc = "idle"
  /\ \A j \in PairIds : j < i => calls[j].pc # "idle"
  /\ LET st == Callable(clients[c], options, httpMethod)
     IN /\ calls' = [calls EXCEPT ![i] =
             [client |-> c, httpMethod |-> httpMethod, url |-> url,
              options |-> options, mergedOptions |-> Deref(st, "mergedOptions")]
               @@ internalFetch(url, Deref(st, "originalOptions"), httpMethod)]
        /\ clients' = [clients EXCEPT ![c] = Deref(st, "defaultOptions")]
        /\ arg' = [arg EXCEPT !.options[i] = Deref(st, "options")]
  /\ UNCHANGED res

\* The handle that rejects the promise with the AbortError whenever it is
\* invoked.
LateCancelSettlingAgain(i, handle) ==
  /\ calls[i].pc \in {"resolved", "rejected"}
  /\ handle = "cancel" => calls[i].pc = "resolved"
  /\ calls[i].cancels < MaxCancels + MaxLateCancels
  /\ calls' = [calls EXCEPT ![i].aborted = TRUE,
                            ![i].cancels = @ + 1,
                            ![i].pc = "rejected",
                            ![i].result = [name |-> "AbortError"],
                            ![i].events = @ \o << <<"cancel">> >>]
  /\ UNCHANGED <<clients, arg, res>>

\* A handle invoked once the promise of call i has settled: the
\* cancelRequest the callable returned, or the cancel field of the envelope
\* the promise resolved with.  abortController.abort() of the call the
\* handle belongs to.
LateCancel(i, handle) ==
  /\ calls[i].pc \in {"resolved", "rejected"}
  /\ handle = "cancel" => calls[i].pc = "resolved"
  /\ calls[i].cancels < MaxCancels + MaxLateCancels
  /\ LET of == IF handle = "cancel" THEN calls[i].result.cancel ELSE i
     IN calls' = [calls EXCEPT ![of].aborted = TRUE,
                               ![of].cancels = @ + 1,
                               ![of].events = @ \o << <<"cancel">> >>]
  /\ UNCHANGED <<clients, arg, res>>

NextPair ==
  \/ \E i \in PairIds, c \in ClientIds, v \in PairInvocations :
       CallOnObjects(i, c, v.httpMethod, v.url, v.options)
  \/ \E i \in PairIds : Cancel(i)
  \/ \E i \in PairIds, handle \in {"cancelRequest", "cancel"} : LateCancel(i, handle)
  \/ \E i \in PairIds : FetchAbort(i)
  \/ \E i \in PairIds : FetchFail(i)
  \/ \E i \in PairIds, status \in PairStatuses, text \in ResponseTexts :
       ResponseArrives(i, status, text)
  \/ \E i \in PairIds : BodyExtracted(i)
  \/ \E i \in PairIds : BodyAbort(i)

SpecPair == InitPair /\ [][NextPair]_vars

(***************************************************************************)
(* Helpers of the properties.                                              *)
(***************************************************************************)
\* The number of "/" characters s begins with, and ends with.
RECURSIVE LeadingSlashes(_)
LeadingSlashes(s) ==
  IF s # <<>> /\ Head(s) = "/" THEN 1 + LeadingSlashes(Tail(s)) ELSE 0

RECURSIVE TrailingSlashes(_)
TrailingSlashes(s) ==
  IF s # <<>> /\ s[Len(s)] = "/"
  THEN 1 + TrailingSlashes(SubSeq(s, 1, Len(s) - 1)) ELSE 0

DropFirst(s, n) == SubSeq(s, n + 1, Len(s))
DropLast(s, n) == SubSeq(s, 1, Len(s) - n)

\* A prefix is given: urlPrefix is a string that is not empty.
PrefixGiven(p) == p.t = "string" /\ Len(p.v) > 0

URLApplied == arg.f = "constructURL" /\ res.done

\* The headers carry a content-type header: under a name that is
\* Content-Type in any case, with a value that is not empty.
CarriesContentType(headers) ==
  /\ headers.t = "object"
  /\ \E n \in DOMAIN headers.v :
       LowerCase(n) = "content-type" /\ headers.v[n] # ""

OptionsApplied == arg.f = "optionsReducer" /\ res.done

(***************************************************************************)
(* C9: URL composition matches its reference for every path R and prefix   *)
(* P: with no prefix the result is R; with P not ending in "/" and R       *)
(* starting with "/" it is P + "/" + R[1:]; with P ending in "/" and R     *)
(* starting with "/" it is P + R[1:]; a path not starting with "/" is      *)
(* appended as it is after the slash-terminated prefix.                    *)
(***************************************************************************)
C9_ComposeMatchesReference ==
  URLApplied =>
    LET R == arg.url
        P == arg.urlPrefix
        rSlash == Len(R) > 0 /\ R[1] = "/"
        pSlash == PrefixGiven(P) /\ P.v[Len(P.v)] = "/"
    IN /\ ~PrefixGiven(P) => res.v = R
       /\ (PrefixGiven(P) /\ ~pSlash /\ rSlash) =>
            res.v = P.v \o <<"/">> \o DropFirst(R, 1)
       /\ (PrefixGiven(P) /\ pSlash /\ rSlash) => res.v = P.v \o DropFirst(R, 1)
       /\ (PrefixGiven(P) /\ ~pSlash /\ ~rSlash) => res.v = P.v \o <<"/">> \o R
       /\ (PrefixGiven(P) /\ pSlash /\ ~rSlash) => res.v = P.v \o R

C9_Witness ==
  /\ URLApplied
  /\ PrefixGiven(arg.urlPrefix)
  /\ TrailingSlashes(arg.urlPrefix.v) = 0
  /\ LeadingSlashes(arg.url) = 1
  /\ Len(arg.url) > 1

(***************************************************************************)
(* C10, as stated: whenever a prefix is given, for every prefix and every  *)
(* path, also a prefix ending with several slashes and a path starting     *)
(* with several slashes, the result is the prefix ending in exactly one    *)
(* "/" followed by a path part that does not begin with "/".               *)
(***************************************************************************)
C10_Original_ExactlyOneSlashAlways ==
  (URLApplied /\ PrefixGiven(arg.urlPrefix)) =>
    res.v = DropLast(arg.urlPrefix.v, TrailingSlashes(arg.urlPrefix.v))
              \o <<"/">> \o DropFirst(arg.url, LeadingSlashes(arg.url))

(***************************************************************************)
(* C10, amended: whenever a prefix is given, exactly one leading slash of  *)
(* the path is stripped and a slash is appended to the prefix only when it *)
(* ends with none, so the slashes at the joint are those the prefix ends   *)
(* with (one if it ends with none) plus those the path starts with beyond  *)
(* the first; prefix and path are joined by exactly one slash whenever the *)
(* prefix ends with at most one slash and the path starts with at most     *)
(* one.                                                                    *)
(***************************************************************************)
C10_ExactlyOneSlashUpToOne ==
  (URLApplied /\ PrefixGiven(arg.urlPrefix)) =>
    LET P == arg.urlPrefix.v
        R == arg.url
        stem == DropLast(P, TrailingSlashes(P))
        rest == DropFirst(R, LeadingSlashes(R))
        joint == (IF TrailingSlashes(P) = 0 THEN 1 ELSE TrailingSlashes(P))
                   + (IF LeadingSlashes(R) = 0 THEN 0 ELSE LeadingSlashes(R) - 1)
    IN /\ res.v = stem \o [i \in 1..joint |-> "/"] \o rest
       /\ (TrailingSlashes(P) <= 1 /\ LeadingSlashes(R) <= 1) =>
            /\ joint = 1
            /\ res.v = stem \o <<"/">> \o rest

C10_Witness ==
  /\ URLApplied
  /\ PrefixGiven(arg.urlPrefix)
  /\ TrailingSlashes(arg.urlPrefix.v) = 1
  /\ Len(arg.urlPrefix.v) > 1
  /\ LeadingSlashes(arg.url) = 1
  /\ Len(arg.url) > 1

(***************************************************************************)
(* C7, as stated: for POST, PUT and PATCH the JSON content-type header is  *)
(* added exactly when the body is a structured value and the caller's      *)
(* headers carry no content-type header, and then the payload is the JSON  *)
(* serialisation of the body; with a string body, no body or an explicit   *)
(* content-type header the resulting headers are exactly the caller's.     *)
(***************************************************************************)
C7_Claim_ContentTypeAddedExactlyWhenAbsent ==
  (OptionsApplied /\ arg.httpMethod \in {POST, PUT, PATCH}) =>
    IF isObject(arg.options.body) /\ ~CarriesContentType(arg.options.headers)
    THEN /\ res.v.headers.t = "object"
         /\ DOMAIN res.v.headers.v =
              (IF arg.options.headers.t = "object"
               THEN DOMAIN arg.options.headers.v ELSE {})
                \cup {"Content-Type"}
         /\ res.v.headers.v["Content-Type"] = "application/json;charset=utf-8"
         /\ \A n \in DOMAIN res.v.headers.v \ {"Content-Type"} :
              res.v.headers.v[n] = arg.options.headers.v[n]
         /\ res.v.body = JSONStringify(arg.options.body)
    ELSE res.v.headers = arg.options.headers

(***************************************************************************)
(* C8, as stated: the body is JSON-serialised only for POST, PUT and PATCH *)
(* with a structured body; a body that is already a string is transmitted  *)
(* exactly as given, and for GET and DELETE the body is passed on exactly  *)
(* as given whatever its shape.                                            *)
(***************************************************************************)
C8_Claim_OnlyStructuredBodySerialised ==
  OptionsApplied =>
    IF arg.httpMethod \in {POST, PUT, PATCH} /\ isObject(arg.options.body)
    THEN /\ res.v.body.t = "string"
         /\ res.v.body.v[1] = "{"
    ELSE res.v.body = arg.options.body


(***************************************************************************)
(* Helpers of the properties of a call.                                    *)
(***************************************************************************)
Made(call) == call.pc # "idle"
Settled(call) == call.pc \in {"resolved", "rejected"}
Happened(call, event) == \E k \in DOMAIN call.events : call.events[k] = event

\* The hooks a call registers, as internalFetch sees them.
Registered(call, kind) ==
  IF call.hooks[kind].t = "array" THEN call.hooks[kind].v ELSE <<>>

\* The hooks of a kind that were invoked, in the order of their invocation.
Invoked(call, kind) ==
  LET es == SelectSeq(call.events, LAMBDA e : e[1] = kind)
  IN [k \in DOMAIN es |-> es[k][2]]

IsPrefix(s, t) == Len(s) <= Len(t) /\ s = SubSeq(t, 1, Len(s))

Throws(hook) == hook \in {"bThrow", "aThrow"}
Threw(call, kind) == \E k \in DOMAIN call.events :
  call.events[k][1] = kind /\ Throws(call.events[k][2])

\* The cancellation handle was invoked before any of the events in `later`
\* happened to the call.
CancelledBefore(call, later) ==
  \E k \in DOMAIN call.events :
    /\ call.events[k] = <<"cancel">>
    /\ \A j \in 1..(k - 1) : call.events[j][1] \notin later

Is2xx(status) == status \in 200..299

(***************************************************************************)
(* C1, as stated: for every call whose response arrives without            *)
(* cancellation or transport failure the outcome is decided by the status  *)
(* alone: with a status in 200..299 the promise resolves with the envelope *)
(* {status, statusText, data, cancel}, data the body extracted with the    *)
(* configured type (json by default); with any other status it rejects     *)
(* with an HTTP error carrying the status as code, the response and the    *)
(* request, and never resolves.                                            *)
(***************************************************************************)
C1_Original_OutcomeByStatusAlone ==
  \A i \in CallIds :
    LET call == calls[i]
        type == IF call.type.t = "undefined" THEN "json" ELSE call.type.e
    IN (/\ Settled(call)
        /\ Happened(call, <<"response">>)
        /\ ~CancelledBefore(call, {"resolve", "reject"})) =>
         IF Is2xx(call.response.status)
         THEN /\ call.pc = "resolved"
              /\ call.result.status = call.response.status
              /\ call.result.statusText = call.response.statusText
              /\ ExtractBody(type, call.response.body).ok
              /\ call.result.data = ExtractBody(type, call.response.body).v
              /\ call.result.cancel = i
         ELSE /\ call.pc = "rejected"
              /\ call.result.name = "HTTPError"
              /\ call.result.code = call.response.status
              /\ call.result.response = call.response
              /\ call.result.request = call.request

(***************************************************************************)
(* C1, amended: for every call whose response arrives without cancellation *)
(* or transport failure and whose afterResponse hooks do not throw, the    *)
(* status decides between the HTTP error and the body extraction: with a   *)
(* status outside 200..299 the promise rejects with an HTTP error carrying *)
(* the status as code, the response and the request, and never resolves;   *)
(* with a status in 200..299 it resolves with the envelope {status,        *)
(* statusText, data, cancel}, data the body extracted with the configured  *)
(* type (json by default), unless the body cannot be extracted as that     *)
(* type, and then it rejects with the accessor's error, not an HTTP error. *)
(***************************************************************************)
C1_OutcomeByStatusAndExtraction ==
  \A i \in CallIds :
    LET call == calls[i]
        type == IF call.type.t = "undefined" THEN "json" ELSE call.type.e
    IN (/\ Settled(call)
        /\ Happened(call, <<"response">>)
        /\ ~CancelledBefore(call, {"resolve", "reject"})
        /\ \A k \in DOMAIN Registered(call, "afterResponse") :
             ~Throws(Registered(call, "afterResponse")[k])) =>
         IF ~Is2xx(call.response.status)
         THEN /\ call.pc = "rejected"
              /\ call.result.name = "HTTPError"
              /\ call.result.code = call.response.status
              /\ call.result.response = call.response
              /\ call.result.request = call.request
         ELSE IF ExtractBody(type, call.response.body).ok
         THEN /\ call.pc = "resolved"
              /\ call.result.status = call.response.status
              /\ call.result.statusText = call.response.statusText
              /\ call.result.data = ExtractBody(type, call.response.body).v
              /\ call.result.cancel = i
         ELSE /\ call.pc = "rejected"
              /\ call.result.name = "SyntaxError"

C1_Witness ==
  \E i \in CallIds :
    /\ calls[i].pc = "resolved"
    /\ calls[i].type.t = "undefined"
    /\ calls[i].result.status = 299
    /\ calls[i].result.data = Obj(<< <<(<<"k">>), (<<"v">>)>> >>)
    /\ Len(Invoked(calls[i], "afterResponse")) > 0
    /\ ~Happened(calls[i], <<"cancel">>)

(***************************************************************************)
(* C2, as stated: if the cancellation handle is invoked after dispatch and *)
(* before the status check of the call has completed, before the response  *)
(* arrives or while the afterResponse hooks run, the call rejects with the *)
(* abort error; it neither resolves nor rejects with an HTTP error.        *)
(***************************************************************************)
C2_Original_CancelBeforeStatusCheckAborts ==
  \A i \in CallIds :
    (/\ Settled(calls[i])
     /\ CancelledBefore(calls[i], {"statusCheck", "resolve", "reject"})) =>
       /\ calls[i].pc = "rejected"
       /\ calls[i].result.name = "AbortError"

(***************************************************************************)
(* C2, amended: if the cancellation handle is invoked after dispatch and   *)
(* before the response arrives, the transport operation is aborted (no     *)
(* response is delivered to the call) and the call's promise rejects with  *)
(* the abort error; it neither resolves nor rejects with an HTTP error.    *)
(* Once the response has arrived with a status outside 200..299 and the    *)
(* afterResponse hooks return, the call rejects with the HTTP error, also  *)
(* when one of these hooks invoked the handle.                             *)
(***************************************************************************)
C2_CancelBeforeResponseAborts ==
  \A i \in CallIds :
    /\ (/\ Made(calls[i])
        /\ CancelledBefore(calls[i], {"response", "resolve", "reject"})) =>
          /\ calls[i].aborted
          /\ ~Happened(calls[i], <<"response">>)
          /\ calls[i].pc \in {"fetching", "rejected"}
          /\ calls[i].pc = "rejected" => calls[i].result.name = "AbortError"
          /\ calls[i].pc = "fetching" => ENABLED FetchAbort(i)
    /\ (/\ Made(calls[i])
        /\ Happened(calls[i], <<"response">>)
        /\ ~Threw(calls[i], "afterResponse")
        /\ ~Is2xx(calls[i].response.status)) =>
          /\ calls[i].pc = "rejected"
          /\ calls[i].result.name = "HTTPError"

C2_Witness ==
  \E i \in CallIds :
    /\ calls[i].pc = "rejected"
    /\ calls[i].result.name = "AbortError"
    /\ ~Happened(calls[i], <<"response">>)
    /\ Happened(calls[i], <<"cancel">>)

(***************************************************************************)
(* C3, as stated: for every url and every searchParams option (a string or *)
(* a key-value mapping) the query string of the transmitted request is     *)
(* exactly the one given by searchParams: appended when the url has none,  *)
(* replacing the one the url has.                                          *)
(***************************************************************************)
QueryIndex(url) ==
  IF \E k \in DOMAIN url : url[k] = "?"
  THEN CHOOSE k \in DOMAIN url : url[k] = "?" /\ \A j \in 1..(k - 1) : url[j] # "?"
  ELSE 0
PathOf(url) == IF QueryIndex(url) = 0 THEN url ELSE SubSeq(url, 1, QueryIndex(url) - 1)
QueryOf(url) == IF QueryIndex(url) = 0 THEN <<>> ELSE DropFirst(url, QueryIndex(url))
QueryGiven(searchParams) ==
  IF searchParams.t = "string" THEN searchParams.v ELSE FormEncode(searchParams.v)

C3_Claim_SearchParamsIsTheQuery ==
  \A i \in CallIds :
    (/\ calls[i].pc = "fetching"
     /\ calls[i].mergedOptions.searchParams.t \in {"string", "object"}) =>
       /\ QueryOf(calls[i].request.url) = QueryGiven(calls[i].mergedOptions.searchParams)
       /\ PathOf(calls[i].request.url) =
            PathOf(constructURL(calls[i].url, calls[i].mergedOptions.urlPrefix))

(***************************************************************************)
(* C4, as stated: for every shortcut callable m and any client defaults    *)
(* and per-call options, also options that carry a method key, the request *)
(* constructed and transmitted carries method m, and the body-encoding     *)
(* rule applied to it is the rule of m.                                    *)
(***************************************************************************)
C4_Claim_RequestCarriesBoundMethod ==
  \A i \in CallIds :
    calls[i].pc = "fetching" =>
      /\ calls[i].request.method = UpperCaseMethod(calls[i].httpMethod)
      /\ calls[i].init.body =
           (IF calls[i].httpMethod \in {POST, PUT, PATCH}
               /\ Truthy(calls[i].mergedOptions.body)
            THEN JSONStringify(calls[i].mergedOptions.body)
            ELSE calls[i].mergedOptions.body)

(***************************************************************************)
(* C5: for every call, the registered beforeRequest hooks are invoked in   *)
(* registration order on the one request that is then transmitted, and all *)
(* of them have finished when the transmission starts; the registered      *)
(* afterResponse hooks are invoked in registration order after the         *)
(* response is received and before the status check and the body           *)
(* extraction, so also for a response with a status outside 200..299.      *)
(***************************************************************************)
C5_HooksInOrderAroundTransmission ==
  \A i \in CallIds :
    Made(calls[i]) =>
      LET call == calls[i]
          before == Registered(call, "beforeRequest")
          after == Registered(call, "afterResponse")
          setters == SelectSeq(before, LAMBDA h : h \in {"bSetA", "bSetB"})
          at(e) == CHOOSE k \in DOMAIN call.events : call.events[k] = e
      IN /\ IsPrefix(Invoked(call, "beforeRequest"), before)
         /\ IsPrefix(Invoked(call, "afterResponse"), after)
         /\ Happened(call, <<"fetch">>) =>
              /\ SubSeq(call.events, 1, at(<<"fetch">>) - 1) =
                   [k \in DOMAIN before |-> <<"beforeRequest", before[k]>>]
              /\ Invoked(call, "beforeRequest") = before
              /\ setters # <<>> =>
                   /\ "authorization" \in DOMAIN call.request.headers
                   /\ call.request.headers["authorization"] =
                        {IF setters[Len(setters)] = "bSetA" THEN "Bearer A" ELSE "Bearer B"}
         /\ \A k \in DOMAIN call.events :
              call.events[k][1] = "afterResponse" =>
                /\ Happened(call, <<"response">>) /\ at(<<"response">>) < k
                /\ \A j \in 1..k : call.events[j][1] \notin {"statusCheck", "extract"}
         /\ Happened(call, <<"statusCheck">>) => Invoked(call, "afterResponse") = after
         /\ (Happened(call, <<"response">>) /\ ~Threw(call, "afterResponse")) =>
              /\ Invoked(call, "afterResponse") = after
              /\ Happened(call, <<"statusCheck">>)

C5_Witness ==
  \E i \in CallIds :
    /\ calls[i].pc = "rejected"
    /\ calls[i].result.name = "HTTPError"
    /\ Len(Invoked(calls[i], "beforeRequest")) = 3
    /\ Len(Invoked(calls[i], "afterResponse")) = 3

(***************************************************************************)
(* C6, as stated: a hook that throws is never ignored: for a throwing      *)
(* beforeRequest hook and a throwing afterResponse hook alike the error    *)
(* reaches the caller as a synchronous throw of the method callable, the   *)
(* remaining hooks of the list are not run and the call does not resolve.  *)
(***************************************************************************)
C6_Original_HookErrorThrownSynchronously ==
  \A i \in CallIds :
    (Made(calls[i])
       /\ (Threw(calls[i], "beforeRequest") \/ Threw(calls[i], "afterResponse"))) =>
      /\ calls[i].pc = "threw"
      /\ calls[i].error.name = "HookError"

(***************************************************************************)
(* C6, amended: a hook that throws is never ignored: the error of a        *)
(* throwing beforeRequest hook reaches the caller as a synchronous throw   *)
(* of the method callable (nothing is transmitted); the error of a         *)
(* throwing afterResponse hook reaches the caller as the rejection of the  *)
(* call's promise; in both cases the remaining hooks of the list are not   *)
(* run and the call does not go on to resolve.                             *)
(***************************************************************************)
C6_HookErrorReachesCaller ==
  \A i \in CallIds :
    Made(calls[i]) =>
      LET call == calls[i]
          n == Len(call.events)
          thrown(kind) == CHOOSE k \in DOMAIN call.events :
            call.events[k][1] = kind /\ Throws(call.events[k][2])
      IN /\ Threw(call, "beforeRequest") =>
              /\ call.pc = "threw"
              /\ call.error = [name |-> "HookError",
                               hook |-> call.events[thrown("beforeRequest")][2]]
              /\ thrown("beforeRequest") = n
              /\ Len(Invoked(call, "beforeRequest")) < Len(Registered(call, "beforeRequest"))
         /\ Threw(call, "afterResponse") =>
              /\ call.pc = "rejected"
              /\ call.result = [name |-> "HookError",
                                hook |-> call.events[thrown("afterResponse")][2]]
              /\ call.events[thrown("afterResponse") + 1] = <<"reject", "HookError">>
              /\ \A k \in (thrown("afterResponse") + 2)..n : call.events[k] = <<"cancel">>
              /\ Len(Invoked(call, "afterResponse")) < Len(Registered(call, "afterResponse"))

C6_Witness ==
  \E i \in CallIds :
    /\ calls[i].pc = "rejected"
    /\ calls[i].result.name = "HookError"
    /\ Threw(calls[i], "afterResponse")
    /\ Is2xx(calls[i].response.status)

(***************************************************************************)
(* Helpers of the properties of two calls.                                 *)
(***************************************************************************)
\* What call i is dispatched with when nothing but the defaults its client
\* was constructed with and the options the call was given is read.
OwnOptions(call) == deepMerge(PairDefaults[call.client], call.options)

OwnDispatch(call) ==
  internalFetch(call.url,
                [OwnOptions(call) EXCEPT
                   !.method = IF @.t = "undefined" THEN Enum(call.httpMethod) ELSE @],
                call.httpMethod)

(***************************************************************************)
(* C11: after any sequence of calls with any per-call options, on any      *)
(* number of clients, the default options of every client and the options  *)
(* object passed to every call are equal to what the caller supplied:      *)
(* merging and the encoding of body and headers build new values only.     *)
(* Hence every call is dispatched with options that depend only on the     *)
(* defaults its own client was constructed with and on its own per-call    *)
(* options: two clients with different urlPrefix defaults each dispatch to *)
(* their own prefix.                                                       *)
(***************************************************************************)
C11_CallerObjectsKeptOwnDispatch ==
  /\ clients = PairDefaults
  /\ \A i \in PairIds :
       Made(calls[i]) =>
         LET call == calls[i]
             own == OwnOptions(call)
             dispatch == OwnDispatch(call)
         IN /\ arg.options[i] = call.options
            /\ call.mergedOptions = own
            /\ call.init = dispatch.init
            /\ call.hooks = dispatch.hooks
            /\ call.type = dispatch.type
            /\ call.request = dispatch.request
            /\ call.request.url = constructURL(call.url, own.urlPrefix)
            /\ own.urlPrefix = IF call.options.urlPrefix.t = "undefined"
                               THEN PairDefaults[call.client].urlPrefix
                               ELSE call.options.urlPrefix

\* Two calls on two clients, the first with a body that was encoded and a
\* header that was added, each sent to the prefix of its own client.
C11_Witness ==
  /\ calls[1].pc = "fetching" /\ calls[2].pc = "fetching"
  /\ calls[1].client = 1 /\ calls[2].client = 2
  /\ calls[1].httpMethod = POST
  /\ calls[1].init.body = Str(JsonText)
  /\ calls[1].init.body # calls[1].options.body
  /\ calls[1].init.headers # PairDefaults[1].headers
  /\ calls[1].request.url = <<"a", "/", "a">>
  /\ calls[2].request.url = <<"b", "/", "a">>

\* The outcome of a settled call whose fetch was left alone: decided by the
\* transport, the hooks, the status and the body of its own response.
OutcomeLeftAlone(call) ==
  IF ~Happened(call, <<"response">>)
  THEN [pc |-> "rejected", result |-> [name |-> "TransportError"]]
  ELSE IF Threw(call, "afterResponse")
  THEN [pc |-> "rejected",
        result |-> [name |-> "HookError",
                    hook |-> Invoked(call, "afterResponse")[Len(Invoked(call, "afterResponse"))]]]
  ELSE IF ~Is2xx(call.response.status)
  THEN [pc |-> "rejected",
        result |-> [name |-> "HTTPError", code |-> call.response.status,
                    response |-> call.response, request |-> call.request]]
  ELSE LET data == ExtractBody(ExpectedDataType(call), call.response.body)
       IN IF data.ok
          THEN [pc |-> "resolved",
                result |-> [status |-> call.response.status,
                            statusText |-> call.response.statusText,
                            data |-> data.v]]
          ELSE [pc |-> "rejected", result |-> [name |-> "SyntaxError"]]

(***************************************************************************)
(* C12: each call has its own cancellation handle: for any two calls in    *)
(* flight at the same time, on one client or on two, and under every       *)
(* interleaving of their events, invoking the handle of one call aborts    *)
(* only that call; a call whose own handle was not invoked is not aborted, *)
(* cannot reject with the abort error, and settles as its own response     *)
(* decides, whatever was invoked on the other call.                        *)
(***************************************************************************)
C12_CancelAbortsOwnCallOnly ==
  \A j \in PairIds :
    (Made(calls[j]) /\ ~Happened(calls[j], <<"cancel">>)) =>
      LET call == calls[j]
          alone == OutcomeLeftAlone(call)
      IN /\ ~call.aborted
         /\ call.cancels = 0
         /\ call.pc = "fetching" => ~ENABLED FetchAbort(j) /\ ENABLED FetchFail(j)
         /\ call.pc = "extracting" => ~ENABLED BodyAbort(j) /\ ENABLED BodyExtracted(j)
         /\ Settled(call) =>
              /\ call.pc = alone.pc
              /\ call.pc = "rejected" => call.result.name # "AbortError"
              /\ [k \in DOMAIN alone.result |-> call.result[k]] = alone.result

\* The first call is in flight, reading the body of its response; the
\* second call, made after it, was cancelled and rejected with the abort
\* error; the first is not aborted.
C12_Witness ==
  /\ calls[1].pc = "extracting"
  /\ calls[1].cancels = 0
  /\ ~calls[1].aborted
  /\ calls[2].pc = "rejected"
  /\ calls[2].result.name = "AbortError"
  /\ calls[2].events = << <<"fetch">>, <<"cancel">>, <<"reject", "AbortError">> >>
  /\ calls[1].client = calls[2].client

\* The cancellation handle was invoked n times after the call settled.
CancelledSinceSettled(call, n) ==
  /\ Settled(call)
  /\ Len(call.events) > n
  /\ \A k \in (Len(call.events) - n + 1)..Len(call.events) :
       call.events[k] = <<"cancel">>
  /\ call.events[Len(call.events) - n][1] \in {"resolve", "reject"}

(***************************************************************************)
(* C13: invoking the cancellation handle of a call after its promise has   *)
(* settled is a no-op.  The cancel field of the resolved envelope is the   *)
(* cancelRequest of the same call.  Once a call has settled, no step       *)
(* changes its outcome (resolved or rejected, the envelope or the error),  *)
(* its request or its response: an invocation of the handle leaves nothing *)
(* behind but the aborted signal, and an invocation on a signal that is    *)
(* aborted already changes nothing at all, so that any number of           *)
(* invocations has the effect of one.                                      *)
(***************************************************************************)
C13_CancelAfterSettlementIsNoOp ==
  /\ [](\A i \in PairIds : calls[i].pc = "resolved" => calls[i].result.cancel = i)
  /\ [][\A i \in PairIds :
          Settled(calls[i]) =>
            /\ calls'[i].pc = calls[i].pc
            /\ calls'[i].result = calls[i].result
            /\ [calls'[i] EXCEPT !.aborted = calls[i].aborted,
                                 !.cancels = calls[i].cancels,
                                 !.events = calls[i].events] = calls[i]
            /\ calls[i].aborted => calls'[i].aborted
            /\ calls'[i].aborted # calls[i].aborted =>
                 calls'[i].events = calls[i].events \o << <<"cancel">> >>]_vars

\* A call that resolved with its envelope and a call that rejected with the
\* HTTP error, the handle of each invoked twice since.
C13_Witness ==
  /\ calls[1].pc = "resolved"
  /\ CancelledSinceSettled(calls[1], 2)
  /\ calls[1].result.data = Obj(<< <<(<<"k">>), (<<"v">>)>> >>)
  /\ calls[2].pc = "rejected"
  /\ calls[2].result.name = "HTTPError"
  /\ CancelledSinceSettled(calls[2], 2)

\* The hooks of a kind in a hooks option, in the order of their registration.
HooksOf(hooks, kind) ==
  IF hooks.t = "object" /\ hooks.v[kind].t = "array" THEN hooks.v[kind].v ELSE <<>>

\* The hooks of a kind a call has from the defaults of its client followed
\* by those from its own options.
DefaultThenOwnHooks(call, kind) ==
  HooksOf(ClientDefaults[call.client].hooks, kind) \o HooksOf(call.options.hooks, kind)

(***************************************************************************)
(* C14: when the client defaults and the per-call options both register    *)
(* hooks of a kind (beforeRequest or afterResponse), the per-call list     *)
(* does not replace the default list: the deep merge concatenates them,    *)
(* and the call runs every default hook first, in its order, and then      *)
(* every per-call hook, in its order, each entry of the two lists once.    *)
(* The hooks invoked are at every moment a prefix of that list; they are   *)
(* the whole list of beforeRequest hooks once the transmission has         *)
(* started, and the whole list of afterResponse hooks once the response    *)
(* has arrived and none of them threw.                                     *)
(***************************************************************************)
C14_DefaultHooksThenCallHooks ==
  \A i \in CallIds :
    Made(calls[i]) =>
      LET call == calls[i]
      IN \A kind \in {"beforeRequest", "afterResponse"} :
           LET both == DefaultThenOwnHooks(call, kind)
           IN /\ Registered(call, kind) = both
              /\ IsPrefix(Invoked(call, kind), both)
              /\ (kind = "beforeRequest" /\ Happened(call, <<"fetch">>)) =>
                   Invoked(call, kind) = both
              /\ (kind = "afterResponse" /\ Happened(call, <<"response">>)
                    /\ ~Threw(call, kind)) =>
                   Invoked(call, kind) = both

\* A call with two hooks of each kind of its own, on the client with one
\* default hook of each kind: three hooks of each kind ran, the default one
\* first.
C14_Witness ==
  \E i \in CallIds :
    /\ calls[i].pc = "resolved"
    /\ HooksOf(ClientDefaults[calls[i].client].hooks, "beforeRequest") = <<"bSetB">>
    /\ HooksOf(calls[i].options.hooks, "beforeRequest") = <<"bSetA", "bSetB">>
    /\ Invoked(calls[i], "beforeRequest") = <<"bSetB", "bSetA", "bSetB">>
    /\ Invoked(calls[i], "afterResponse") = <<"aSeen2", "aSeen1", "aSeen2">>

=============================================================================
